---------------------------- MODULE Spec2Model ----------------------------
(***************************************************************************)
(* Model of dhnam/rule110_turing: a two-symbol Turing machine, a tag       *)
(* system, a cyclic tag system, the reductions Turing -> Tag -> Cyclic and *)
(* the Nester that steps all levels in lockstep.                           *)
(*                                                                         *)
(* Conventions.  Python lists are sequences; a Python index i is position  *)
(* i + 1.  Python strings are sequences of one-character strings, so that  *)
(* formatting, slicing and parsing of tag symbols are computed.  Objects   *)
(* are records with a cls field.  An operation that may raise returns a    *)
(* record whose err field names the exception ("ok" when none).            *)
(***************************************************************************)
EXTENDS Integers, Sequences, FiniteSets, TLC

VARIABLES
    machine,         \* the BinaryTuring object (base of the Nester)
    tag_machine,     \* a TagSystem object
    cyclic_machine,  \* a CyclicTagSystem object
    nester,          \* the Nester's own lists: infos, objs, registered chain
    cyclic_transition, \* the global name cyclic_transition of tag_to_cyclic.py
    steps,           \* number of steps taken so far (bounds the run)
    last             \* history: the last operation, its inputs and its outcome

vars == <<machine, tag_machine, cyclic_machine, nester, cyclic_transition,
          steps, last>>

-----------------------------------------------------------------------------
(* Bounds of the model *)

MaxNumber == 2       \* left_number, right_number of a TapeTuple (Turing engine)
MaxSteps == 3        \* steps of a single engine
MaxPipeNumber == 1   \* left_number, right_number at the start of a pipeline
MaxAdvance == 2      \* calls of next(nester)
MaxRaw == 2          \* length of a tape list given to a constructor
MaxProd == 2         \* length of a production, of a cyclic tag
MaxTape == 2         \* length of the initial tape of a tag or cyclic system
MaxNum == 2          \* deletion number of a tag system
MaxTrans == 2        \* length of a cyclic transition list

-----------------------------------------------------------------------------
(* Python helpers *)

Min(a, b) == IF a < b THEN a ELSE b
Max(a, b) == IF a > b THEN a ELSE b

RECURSIVE Pow2(_)
Pow2(k) == IF k <= 0 THEN 1 ELSE 2 * Pow2(k - 1)

\* int.bit_length() of a non-negative int
RECURSIVE bit_length(_)
bit_length(n) == IF n <= 0 THEN 0 ELSE 1 + bit_length(n \div 2)

\* x ^ (1 << k)
BitXorPow2(x, k) ==
    IF (x \div Pow2(k)) % 2 = 1 THEN x - Pow2(k) ELSE x + Pow2(k)

\* x | (1 << k)
BitOrPow2(x, k) ==
    IF (x \div Pow2(k)) % 2 = 1 THEN x ELSE x + Pow2(k)

\* seq[n:] for n >= 0
Drop(seq, n) == SubSeq(seq, Min(n, Len(seq)) + 1, Len(seq))

\* seq[:n] for n >= 0
Take(seq, n) == SubSeq(seq, 1, Min(n, Len(seq)))

\* seq[i] with Python's negative indices; the caller checks InRange first
InRange(seq, i) == -Len(seq) <= i /\ i < Len(seq)
PyAt(seq, i) == IF i >= 0 THEN seq[i + 1] ELSE seq[Len(seq) + i + 1]

Range(seq) == {seq[i] : i \in 1..Len(seq)}

-----------------------------------------------------------------------------
(* binary_turing.py *)

ZERO == 0
ONE == 1
RIGHT == "RIGHT"
LEFT == "LEFT"

TuringTransition(write, move, next_state) ==
    [write |-> write, move |-> move, next_state |-> next_state]

TuringStateTransition(state, transitions) ==
    [state |-> state, transitions |-> transitions]

TuringTapeTuple(state, left_number, right_number, head) ==
    [state |-> state, left_number |-> left_number,
     right_number |-> right_number, head |-> head]

\* TuringTransitionTable: the dict state_table in insertion order, as the list
\* of its values.  __init__ asserts that no state id is repeated.
TableStates(table) == [i \in 1..Len(table) |-> table[i].state]
TableHas(table, key) == \E i \in 1..Len(table) : table[i].state = key
TableGet(table, key) ==
    table[CHOOSE i \in 1..Len(table) : table[i].state = key]

\* TuringTransitionTable.__init__: the loop over states with its assert
RECURSIVE StateTableLoop(_, _)
StateTableLoop(states, state_table) ==
    IF Len(states) = 0 THEN [err |-> "ok", val |-> state_table]
    ELSE IF TableHas(state_table, Head(states).state) THEN [err |-> "AssertionError"]
    ELSE StateTableLoop(Tail(states), Append(state_table, Head(states)))

TuringTransitionTable(states) == StateTableLoop(states, <<>>)

\* BinaryTuringTape.__init__
BinaryTuringTape(tape) ==
    [cls |-> "BinaryTuringTape",
     tape |-> [i \in 1..Len(tape) |-> IF tape[i] = 1 THEN ONE ELSE ZERO],
     head |-> 0, tape_offset |-> 0]

_head_addr(t) == t.head - t.tape_offset

\* head_symbol getter: self.tape[self._head_addr]
head_symbol(t) ==
    IF InRange(t.tape, _head_addr(t))
    THEN [err |-> "ok", val |-> PyAt(t.tape, _head_addr(t))]
    ELSE [err |-> "IndexError"]

\* head_symbol setter
set_head_symbol(t, value) ==
    IF InRange(t.tape, _head_addr(t))
    THEN [err |-> "ok",
          val |-> [t EXCEPT !.tape =
                     [t.tape EXCEPT ![IF _head_addr(t) >= 0
                                      THEN _head_addr(t) + 1
                                      ELSE Len(t.tape) + _head_addr(t) + 1] = value]]]
    ELSE [err |-> "IndexError"]

\* _move_left that leaves tape_offset where it was
_move_left_KeepOffset(t) ==
    LET popped == IF _head_addr(t) = Len(t.tape) - 1 /\ t.tape[Len(t.tape)] = ZERO
                  THEN [t EXCEPT !.tape = Take(t.tape, Len(t.tape) - 1)]
                  ELSE t
        moved == [popped EXCEPT !.head = popped.head - 1]
    IN  IF moved.head < moved.tape_offset
        THEN [moved EXCEPT !.tape = <<ZERO>> \o moved.tape]
        ELSE moved

\* _move_left that puts no cell in front of the list
_move_left_NoInsert(t) ==
    LET popped == IF _head_addr(t) = Len(t.tape) - 1 /\ t.tape[Len(t.tape)] = ZERO
                  THEN [t EXCEPT !.tape = Take(t.tape, Len(t.tape) - 1)]
                  ELSE t
        moved == [popped EXCEPT !.head = popped.head - 1]
    IN  IF moved.head < moved.tape_offset
        THEN [moved EXCEPT !.tape_offset = moved.tape_offset - 1]
        ELSE moved

_move_left(t) ==
    LET popped == IF _head_addr(t) = Len(t.tape) - 1 /\ t.tape[Len(t.tape)] = ZERO
                  THEN [t EXCEPT !.tape = Take(t.tape, Len(t.tape) - 1)]
                  ELSE t
        moved == [popped EXCEPT !.head = popped.head - 1]
    IN  IF moved.head < moved.tape_offset
        THEN [moved EXCEPT !.tape_offset = moved.tape_offset - 1,
                           !.tape = <<ZERO>> \o moved.tape]
        ELSE moved

\* _move_right that keeps a ZERO cell left behind at the front
_move_right_NoTrim(t) ==
    LET moved == [t EXCEPT !.head = t.head + 1]
    IN  IF _head_addr(moved) >= Len(moved.tape)
        THEN [moved EXCEPT !.tape = Append(moved.tape, ZERO)]
        ELSE moved

_move_right(t) ==
    LET popped == IF t.head = t.tape_offset /\ t.tape[1] = ZERO
                  THEN [t EXCEPT !.tape = Tail(t.tape),
                                 !.tape_offset = t.tape_offset + 1]
                  ELSE t
        moved == [popped EXCEPT !.head = popped.head + 1]
    IN  IF _head_addr(moved) >= Len(moved.tape)
        THEN [moved EXCEPT !.tape = Append(moved.tape, ZERO)]
        ELSE moved

move_tape(t, direction) ==
    IF direction = LEFT THEN _move_left(t) ELSE _move_right(t)

\* first loop of from_tape_tuple: for i in range(bit_length, 0, -1)
RECURSIVE FromLeftLoop(_, _, _)
FromLeftLoop(i, left_number, tape) ==
    IF i <= 0 THEN tape
    ELSE IF i = bit_length(left_number)
         THEN FromLeftLoop(i - 1,
                           BitXorPow2(left_number, bit_length(left_number) - 1),
                           Append(tape, ONE))
         ELSE FromLeftLoop(i - 1, left_number, Append(tape, ZERO))

\* second loop of from_tape_tuple
RECURSIVE FromRightLoop(_, _, _)
FromRightLoop(i, right_number, tape) ==
    IF i <= 0 THEN tape
    ELSE FromRightLoop(i - 1, right_number \div 2,
                       Append(tape, IF right_number % 2 = 0 THEN ZERO ELSE ONE))

\* from_tape_tuple leaving new_tape.head at 0
from_tape_tuple_NoHead(tape_tuple) ==
    LET lefts == FromLeftLoop(bit_length(tape_tuple.left_number),
                              tape_tuple.left_number, <<>>)
        withHead == Append(lefts, tape_tuple.head)
    IN  [cls |-> "BinaryTuringTape",
         tape |-> FromRightLoop(bit_length(tape_tuple.right_number),
                                tape_tuple.right_number, withHead),
         head |-> 0,
         tape_offset |-> 0]

from_tape_tuple(tape_tuple) ==
    LET lefts == FromLeftLoop(bit_length(tape_tuple.left_number),
                              tape_tuple.left_number, <<>>)
        withHead == Append(lefts, tape_tuple.head)
    IN  [cls |-> "BinaryTuringTape",
         tape |-> FromRightLoop(bit_length(tape_tuple.right_number),
                                tape_tuple.right_number, withHead),
         head |-> bit_length(tape_tuple.left_number),
         tape_offset |-> 0]

\* left_number property: enumerate the tape, stop at the first i >= _head_addr
RECURSIVE LeftLoop(_, _, _)
LeftLoop(t, i, acc) ==
    IF i >= Len(t.tape) \/ ~(i < _head_addr(t)) THEN acc
    ELSE LeftLoop(t, i + 1,
                  IF t.tape[i + 1] = ONE THEN 2 * acc + 1 ELSE 2 * acc)

left_number(t) == LeftLoop(t, 0, 0)

\* right_number property
RECURSIVE RightLoop(_, _, _)
RightLoop(t, i, acc) ==
    IF i >= Len(t.tape) THEN acc
    ELSE RightLoop(t, i + 1,
                   IF i > _head_addr(t) /\ t.tape[i + 1] # ZERO
                   THEN BitOrPow2(acc, i - _head_addr(t) - 1)
                   ELSE acc)

right_number(t) == RightLoop(t, 0, 0)

\* BinaryTuring.__init__; tape is the BinaryTuringTape given or built from the
\* list given (the empty one for None)
BinaryTuring(table, tape) ==
    [cls |-> "BinaryTuring", table |-> table, state |-> 0, tape |-> tape]

\* tape_tuple getter
tape_tuple(m) ==
    LET h == head_symbol(m.tape)
    IN  IF h.err # "ok" THEN [err |-> h.err]
        ELSE [err |-> "ok",
              val |-> TuringTapeTuple(m.state, left_number(m.tape),
                                      right_number(m.tape), h.val)]

\* the setter without its assignment to self.state
set_tape_tuple_KeepState(m, value) == [m EXCEPT !.tape = from_tape_tuple(value)]

\* tape_tuple setter
set_tape_tuple(m, value) ==
    [m EXCEPT !.state = value.state, !.tape = from_tape_tuple(value)]

\* __next__ in which a state missing from the table is a step that does nothing
TuringNext_SilentMissing(m) ==
    LET read == head_symbol(m.tape)
    IN  IF read.err # "ok" THEN [err |-> read.err, val |-> m]
        ELSE IF ~TableHas(m.table, m.state) THEN [err |-> "ok", val |-> m]
        ELSE LET transition == TableGet(m.table, m.state).transitions[
                                   IF read.val = ZERO THEN 1 ELSE 2]
                 written == set_head_symbol(m.tape, transition.write).val
             IN  [err |-> "ok",
                  val |-> [m EXCEPT !.tape = move_tape(written, transition.move),
                                    !.state = transition.next_state]]

\* BinaryTuring.__next__
TuringNext(m) ==
    LET read == head_symbol(m.tape)
    IN  IF read.err # "ok" THEN [err |-> read.err, val |-> m]
        ELSE IF ~TableHas(m.table, m.state) THEN [err |-> "KeyError", val |-> m]
        ELSE LET transition == TableGet(m.table, m.state).transitions[
                                   IF read.val = ZERO THEN 1 ELSE 2]
                 written == set_head_symbol(m.tape, transition.write).val
             IN  [err |-> "ok",
                  val |-> [m EXCEPT !.tape = move_tape(written, transition.move),
                                    !.state = transition.next_state]]

-----------------------------------------------------------------------------
(* Python dicts keep insertion order: a dict is the list of its items.     *)

DictKeys(d) == [i \in 1..Len(d) |-> d[i].key]
DictHas(d, k) == \E i \in 1..Len(d) : d[i].key = k
DictGet(d, k) == d[CHOOSE i \in 1..Len(d) : d[i].key = k].val

\* d[k] = v: an existing key keeps its place
DictSet(d, k, v) ==
    IF DictHas(d, k)
    THEN [i \in 1..Len(d) |-> IF d[i].key = k THEN [key |-> k, val |-> v] ELSE d[i]]
    ELSE Append(d, [key |-> k, val |-> v])

\* dict == dict: the same items, whatever the order
DictEq(d, e) == Range(d) = Range(e)

-----------------------------------------------------------------------------
(* tag_system.py *)

TagSysTape(tape) == [cls |-> "TagSysTape", tape |-> tape]

\* TagSysTape.head: self.tape[0]
TagHead(t) ==
    IF Len(t.tape) = 0 THEN [err |-> "IndexError"]
    ELSE [err |-> "ok", val |-> t.tape[1]]

\* TagSysTape.remove: self.tape = self.tape[num:]
\* remove dropping one symbol whatever num is
TagRemove_One(t, num) == [t EXCEPT !.tape = Drop(t.tape, 1)]

TagRemove(t, num) == [t EXCEPT !.tape = Drop(t.tape, num)]

\* TagSysTape.tag: self.tape.extend(symbols)
TagTag(t, symbols) == [t EXCEPT !.tape = t.tape \o symbols]

\* TagSystem.__init__
TagSystem(transition, num, tape) ==
    [cls |-> "TagSystem", transition |-> transition, tape |-> tape, num |-> num]

\* TagSystem.symbol_list: list(self.transition)
symbol_list(sys) == DictKeys(sys.transition)

\* TagSystem.__next__: a KeyError of the lookup becomes StopIteration, the
\* IndexError of an empty tape is not caught
\* TagSystem.__next__ removing from the old tape before it appends
TagNext_RemoveThenTag(sys) ==
    LET h == TagHead(sys.tape)
    IN  IF h.err # "ok" THEN [err |-> h.err, val |-> sys]
        ELSE IF ~DictHas(sys.transition, h.val)
             THEN [err |-> "StopIteration", val |-> sys]
        ELSE [err |-> "ok",
              val |-> [sys EXCEPT !.tape =
                         TagTag(TagRemove(sys.tape, sys.num),
                                DictGet(sys.transition, h.val))]]

\* TagSystem.__next__ raising StopIteration for an empty tape as well
TagNext_EmptyHalts(sys) ==
    LET h == TagHead(sys.tape)
    IN  IF h.err # "ok" \/ ~DictHas(sys.transition, h.val)
        THEN [err |-> "StopIteration", val |-> sys]
        ELSE [err |-> "ok",
              val |-> [sys EXCEPT !.tape =
                         TagRemove(TagTag(sys.tape, DictGet(sys.transition, h.val)),
                                   sys.num)]]

TagNext(sys) ==
    LET h == TagHead(sys.tape)
    IN  IF h.err # "ok" THEN [err |-> h.err, val |-> sys]
        ELSE IF ~DictHas(sys.transition, h.val)
             THEN [err |-> "StopIteration", val |-> sys]
        ELSE [err |-> "ok",
              val |-> [sys EXCEPT !.tape =
                         TagRemove(TagTag(sys.tape, DictGet(sys.transition, h.val)),
                                   sys.num)]]

\* TagSystem.__eq__
TagSystemEq(a, b) ==
    /\ b.cls = a.cls
    /\ DictEq(b.transition, a.transition)
    /\ b.tape.cls = a.tape.cls /\ b.tape.tape = a.tape.tape
    /\ b.num = a.num

-----------------------------------------------------------------------------
(* cyclic_tag.py *)

NO == 0
YES == 1

\* CyclicTransition.__init__
CyclicTransition(transition_list) ==
    [cls |-> "CyclicTransition", transitions |-> transition_list, point |-> 0]

\* CyclicTransition.__next__: returns the selected tag and the moved pointer
\* CyclicTransition.__next__ wrapping one slot early
CyclicTransitionNext_EarlyWrap(tr) ==
    IF ~InRange(tr.transitions, tr.point) THEN [err |-> "IndexError", tr |-> tr]
    ELSE [err |-> "ok",
          val |-> PyAt(tr.transitions, tr.point),
          tr |-> [tr EXCEPT !.point = IF tr.point + 2 >= Len(tr.transitions)
                                      THEN 0 ELSE tr.point + 1]]

CyclicTransitionNext(tr) ==
    IF ~InRange(tr.transitions, tr.point) THEN [err |-> "IndexError", tr |-> tr]
    ELSE [err |-> "ok",
          val |-> PyAt(tr.transitions, tr.point),
          tr |-> [tr EXCEPT !.point = IF tr.point + 1 >= Len(tr.transitions)
                                      THEN 0 ELSE tr.point + 1]]

CyclicTape(tape) == [cls |-> "CyclicTape", tape |-> tape]

\* CyclicTagSystem.__init__
CyclicTagSystem(transition, tape) ==
    [cls |-> "CyclicTagSystem", transition |-> transition, tape |-> tape]

\* CyclicTagSystem.__next__: pop, then next(self.transition), then tag on YES
CyclicNext(sys) ==
    IF Len(sys.tape.tape) = 0 THEN [err |-> "IndexError", val |-> sys]
    ELSE LET next_symbol == Head(sys.tape.tape)
             popped == [sys EXCEPT !.tape.tape = Tail(sys.tape.tape)]
             nt == CyclicTransitionNext(sys.transition)
         IN  IF nt.err # "ok" THEN [err |-> nt.err, val |-> popped]
             ELSE [err |-> "ok",
                   val |-> [popped EXCEPT
                              !.transition = nt.tr,
                              !.tape.tape = IF next_symbol = YES
                                            THEN popped.tape.tape \o nt.val
                                            ELSE popped.tape.tape]]

\* CyclicTagSystem.__eq__ with CyclicTransition.__eq__ (the pointer is not
\* compared) and CyclicTape.__eq__
CyclicSystemEq(a, b) ==
    /\ b.cls = a.cls
    /\ b.transition.transitions = a.transition.transitions
    /\ b.tape.tape = a.tape.tape

-----------------------------------------------------------------------------
(* turing_to_tag.py *)

Digits == <<"0", "1", "2", "3", "4", "5", "6", "7", "8", "9">>

\* str(n) of an int
RECURSIVE NatStr(_)
NatStr(n) == IF n < 10 THEN <<Digits[n + 1]>>
             ELSE NatStr(n \div 10) \o <<Digits[(n % 10) + 1]>>
IntStr(n) == IF n < 0 THEN <<"-">> \o NatStr(-n) ELSE NatStr(n)

\* int(s) of a string of decimal digits
IsDigits(s) == Len(s) > 0 /\ \A i \in 1..Len(s) : s[i] \in Range(Digits)
DigitVal(c) == (CHOOSE i \in 1..10 : Digits[i] = c) - 1
RECURSIVE StrNat(_)
StrNat(s) == IF Len(s) = 0 THEN 0
             ELSE 10 * StrNat(Take(s, Len(s) - 1)) + DigitVal(s[Len(s)])

\* f"{role}_{state}", f"{role}_{state}*", f"{role}_{state}:{z}"
Sym(role, state) == <<role, "_">> \o IntStr(state)
SymStar(role, state) == Sym(role, state) \o <<"*">>
SymDigit(role, state, z) == Sym(role, state) \o <<":">> \o IntStr(z)

\* h_k[z] as built in the loop over z
\* h_k[z] without the second H_m of a ZERO reading
HProd_OneH(tr, z) ==
    (IF tr.move = LEFT /\ tr.write = ONE
     THEN <<SymStar("R", tr.next_state), SymStar("R", tr.next_state)>> ELSE <<>>)
    \o <<Sym("H", tr.next_state)>>
    \o (IF tr.move = RIGHT /\ tr.write = ONE
        THEN <<Sym("L", tr.next_state), Sym("L", tr.next_state)>> ELSE <<>>)

HProd(tr, z) ==
    (IF tr.move = LEFT /\ tr.write = ONE
     THEN <<SymStar("R", tr.next_state), SymStar("R", tr.next_state)>> ELSE <<>>)
    \o (IF z = 0 THEN <<Sym("H", tr.next_state)>> ELSE <<>>)
    \o <<Sym("H", tr.next_state)>>
    \o (IF tr.move = RIGHT /\ tr.write = ONE
        THEN <<Sym("L", tr.next_state), Sym("L", tr.next_state)>> ELSE <<>>)

\* l_k[z]
LProd(tr) ==
    <<Sym("L", tr.next_state)>>
    \o (IF tr.move = RIGHT
        THEN <<Sym("L", tr.next_state), Sym("L", tr.next_state),
               Sym("L", tr.next_state)>>
        ELSE <<>>)

\* r_k[z]
RProd(tr) ==
    <<Sym("R", tr.next_state)>>
    \o (IF tr.move = LEFT
        THEN <<Sym("R", tr.next_state), Sym("R", tr.next_state),
               Sym("R", tr.next_state)>>
        ELSE <<>>)

Item(k, v) == [key |-> k, val |-> v]

\* the assignments to tag_transition made for one state, in program order
StateItems(st) ==
    LET k == st.state
        tr(z) == st.transitions[z + 1]
    IN  << Item(SymDigit("H", k, 0), HProd(tr(0), 0)),
           Item(SymDigit("L", k, 0), LProd(tr(0))),
           Item(SymDigit("R", k, 0), RProd(tr(0))),
           Item(SymDigit("H", k, 1), HProd(tr(1), 1)),
           Item(SymDigit("L", k, 1), LProd(tr(1))),
           Item(SymDigit("R", k, 1), RProd(tr(1))),
           Item(SymStar("R", k), <<Sym("R", k), Sym("R", k)>>),
           Item(Sym("H", k), <<SymDigit("H", k, 1), SymDigit("H", k, 0)>>),
           Item(Sym("L", k), <<SymDigit("L", k, 1), SymDigit("L", k, 0)>>),
           Item(Sym("R", k), <<SymDigit("R", k, 1), SymDigit("R", k, 0)>>) >>

RECURSIVE DictSetAll(_, _)
DictSetAll(d, items) ==
    IF Len(items) = 0 THEN d
    ELSE DictSetAll(DictSet(d, Head(items).key, Head(items).val), Tail(items))

RECURSIVE TableLoop(_, _, _)
TableLoop(turing_table, i, tag_transition) ==
    IF i > Len(turing_table) THEN tag_transition
    ELSE TableLoop(turing_table, i + 1,
                   DictSetAll(tag_transition, StateItems(turing_table[i])))

turing_table_to_tag_transition(turing_table) == TableLoop(turing_table, 1, <<>>)

\* lst * n
RECURSIVE Repeat(_, _)
Repeat(lst, n) == IF n <= 0 THEN <<>> ELSE lst \o Repeat(lst, n - 1)

\* the tape with one pair of symbols per bit of the numbers
turing_machine_to_tag_tape_PerBit(turing_machine) ==
    LET tt == tape_tuple(turing_machine)
    IN  IF tt.err # "ok" THEN [err |-> tt.err]
        ELSE LET tape_state == tt.val
                 tag_tape_list ==
                     <<SymDigit("H", tape_state.state, 1),
                       SymDigit("H", tape_state.state, 0)>>
                     \o Repeat(<<SymDigit("L", tape_state.state, 1),
                                 SymDigit("L", tape_state.state, 0)>>,
                               bit_length(tape_state.left_number))
                     \o Repeat(<<SymDigit("R", tape_state.state, 1),
                                 SymDigit("R", tape_state.state, 0)>>,
                               bit_length(tape_state.right_number))
             IN  [err |-> "ok",
                  val |-> TagSysTape(IF tape_state.head = ZERO
                                     THEN Drop(tag_tape_list, 1)
                                     ELSE tag_tape_list)]

turing_machine_to_tag_tape(turing_machine) ==
    LET tt == tape_tuple(turing_machine)
    IN  IF tt.err # "ok" THEN [err |-> tt.err]
        ELSE LET tape_state == tt.val
                 tag_tape_list ==
                     <<SymDigit("H", tape_state.state, 1),
                       SymDigit("H", tape_state.state, 0)>>
                     \o Repeat(<<SymDigit("L", tape_state.state, 1),
                                 SymDigit("L", tape_state.state, 0)>>,
                               tape_state.left_number)
                     \o Repeat(<<SymDigit("R", tape_state.state, 1),
                                 SymDigit("R", tape_state.state, 0)>>,
                               tape_state.right_number)
             IN  [err |-> "ok",
                  val |-> TagSysTape(IF tape_state.head = ZERO
                                     THEN Drop(tag_tape_list, 1)
                                     ELSE tag_tape_list)]

\* num keeps TagSystem's default, 2
turing_machine_to_tag_system(turing_machine) ==
    LET t == turing_machine_to_tag_tape(turing_machine)
    IN  IF t.err # "ok" THEN [err |-> t.err]
        ELSE [err |-> "ok",
              val |-> TagSystem(turing_table_to_tag_transition(turing_machine.table),
                                2, t.val)]

\* next_symbol[-2:] not in (":0", ":1")
DigitTagged(next_symbol) ==
    Drop(next_symbol, Max(Len(next_symbol) - 2, 0)) \in {<<":", "0">>, <<":", "1">>}

\* is_step_passed reads tag_sys.tape.tape: of a TagSystem that is the list of
\* symbols; of a TagSysTape, whose tape is a list, it is an AttributeError
is_step_passed(tag_sys) ==
    IF tag_sys.cls # "TagSystem" THEN [err |-> "AttributeError"]
    ELSE [err |-> "ok",
          val |-> \A i \in 1..Len(tag_sys.tape.tape) :
                      DigitTagged(tag_sys.tape.tape[i])]

Count(lst, x) == Cardinality({i \in 1..Len(lst) : lst[i] = x})

\* the TuringTapeTuple(...) expression of tag_tape_to_turing_tape_tuple
TupleOfTape(tape) ==
    IF Len(tape) = 0 THEN [err |-> "IndexError"]
    ELSE LET st == SubSeq(tape[1], 3, Len(tape[1]) - 2)
         IN  IF ~IsDigits(st) THEN [err |-> "ValueError"]
             ELSE [err |-> "ok",
                   val |-> TuringTapeTuple(
                      StrNat(st),
                      Count(tape, <<"L", "_">> \o st \o <<":", "0">>),
                      Count(tape, <<"R", "_">> \o st \o <<":", "0">>),
                      IF Drop(tape[1], Max(Len(tape[1]) - 2, 0)) = <<":", "1">>
                      THEN ONE ELSE ZERO)]

\* tag_tape_to_turing_tape_tuple: the assert calls is_step_passed on its argument
\* (asserts are executed); then tag_tape.tape must be a list
tag_tape_to_turing_tape_tuple(tag_tape) ==
    LET passed == is_step_passed(tag_tape)
    IN  IF passed.err # "ok" THEN [err |-> passed.err]
        ELSE IF ~passed.val THEN [err |-> "AssertionError"]
        ELSE IF tag_tape.cls # "TagSysTape" THEN [err |-> "TypeError"]
        ELSE TupleOfTape(tag_tape.tape)

-----------------------------------------------------------------------------
(* tag_to_cyclic.py *)

\* the one-hot tag without its trailing zeros
OneHot_NoPad(i, tag_count) == Repeat(<<NO>>, i) \o <<YES>>

\* CyclicTag.fromstr("0" * i + "1" + "0" * (tag_count - i - 1))
OneHot(i, tag_count) ==
    Repeat(<<NO>>, i) \o <<YES>> \o Repeat(<<NO>>, tag_count - i - 1)

tag_system_to_cyclic_tags_dict(tag_system) ==
    LET tags == symbol_list(tag_system)
    IN  [i \in 1..Len(tags) |-> Item(tags[i], OneHot(i - 1, Len(tags)))]

\* next_tag.extend(trans_dict[s]) for each s of symbols; every s is a key
RECURSIVE ExtendAll(_, _)
ExtendAll(trans_dict, symbols) ==
    IF Len(symbols) = 0 THEN <<>>
    ELSE DictGet(trans_dict, Head(symbols)) \o ExtendAll(trans_dict, Tail(symbols))

AllKeys(trans_dict, symbols) ==
    \A i \in 1..Len(symbols) : DictHas(trans_dict, symbols[i])

\* tag_system_to_cyclic_transitions(tag_system, num): the empty slots are "",
\* whose length is that of the empty tag
tag_system_to_cyclic_transitions(tag_system, num) ==
    LET trans_dict == tag_system_to_cyclic_tags_dict(tag_system)
    IN  IF \E i \in 1..Len(trans_dict) :
               ~AllKeys(trans_dict, tag_system.transition[i].val)
        THEN [err |-> "KeyError"]
        ELSE [err |-> "ok",
              val |-> CyclicTransition(
                  [i \in 1..Len(trans_dict) |->
                      ExtendAll(trans_dict, tag_system.transition[i].val)]
                  \o Repeat(<< <<>> >>, Len(trans_dict) * (num - 1)))]

tag_system_to_cyclic_tape(tag_system) ==
    LET trans_dict == tag_system_to_cyclic_tags_dict(tag_system)
    IN  IF ~AllKeys(trans_dict, tag_system.tape.tape) THEN [err |-> "KeyError"]
        ELSE [err |-> "ok",
              val |-> CyclicTape(ExtendAll(trans_dict, tag_system.tape.tape))]

\* the call passes no num: the parameter keeps its default
DefaultNum == 2

tag_system_to_cyclic_machine(tag_sys) ==
    LET tr == tag_system_to_cyclic_transitions(tag_sys, DefaultNum)
        tp == tag_system_to_cyclic_tape(tag_sys)
    IN  IF tr.err # "ok" THEN [err |-> tr.err]
        ELSE IF tp.err # "ok" THEN [err |-> tp.err]
        ELSE [err |-> "ok", val |-> CyclicTagSystem(tr.val, tp.val)]

\* the test for a pointer value the wrap-around never leaves behind
is_tag_step_passed_Never(cyclic) ==
    [err |-> "ok", val |-> cyclic.transition.point = Len(cyclic.transition.transitions)]

\* the test passing one slot late as well
is_tag_step_passed_Late(cyclic) ==
    [err |-> "ok", val |-> cyclic.transition.point <= 1]

is_tag_step_passed(cyclic) ==
    [err |-> "ok", val |-> cyclic.transition.point = 0]

\* reverse_trans_dict, with its assert that no value repeats
ReverseDictOk(trans_dict) ==
    \A i, j \in 1..Len(trans_dict) :
        trans_dict[i].val = trans_dict[j].val => i = j
ReverseHas(trans_dict, tag) == \E i \in 1..Len(trans_dict) : trans_dict[i].val = tag
ReverseGet(trans_dict, tag) ==
    trans_dict[CHOOSE i \in 1..Len(trans_dict) : trans_dict[i].val = tag].key

\* zip(*[iter(lst)] * n): the full chunks of n items, n >= 1
Chunks(lst, n) ==
    [c \in 1..(Len(lst) \div n) |-> SubSeq(lst, (c - 1) * n + 1, c * n)]

\* tag_tape_list += symbol: a list extended by a string takes its characters
RECURSIVE PlusEqLoop(_, _, _)
PlusEqLoop(trans_dict, chunks, tag_tape_list) ==
    IF Len(chunks) = 0 THEN [err |-> "ok", val |-> tag_tape_list]
    ELSE IF ~ReverseHas(trans_dict, Head(chunks)) THEN [err |-> "KeyError"]
    ELSE LET s == ReverseGet(trans_dict, Head(chunks))
         IN  PlusEqLoop(trans_dict, Tail(chunks),
                        tag_tape_list \o [i \in 1..Len(s) |-> <<s[i]>>])

cyclic_tape_dict_to_tag_tape(cyclic_tape, trans_dict) ==
    IF Len(trans_dict) = 0 THEN [err |-> "ZeroDivisionError"]
    ELSE IF Len(cyclic_tape.tape) % Len(trans_dict) # 0
         THEN [err |-> "AssertionError"]
    ELSE IF ~ReverseDictOk(trans_dict) THEN [err |-> "AssertionError"]
    ELSE LET r == PlusEqLoop(trans_dict,
                             Chunks(cyclic_tape.tape, Len(trans_dict)), <<>>)
         IN  IF r.err # "ok" THEN r
             ELSE [err |-> "ok", val |-> TagSysTape(r.val)]

cyclic_transition_to_symbol_count(cyclic_transition_) ==
    Cardinality({i \in 1..Len(cyclic_transition_.transitions) :
                     Len(cyclic_transition_.transitions[i]) = 0})

\* next_tag_sys_tag.append(reverse_trans_dict[chunk]) for each chunk
RECURSIVE AppendLoop(_, _, _)
AppendLoop(trans_dict, chunks, tag) ==
    IF Len(chunks) = 0 THEN [err |-> "ok", val |-> tag]
    ELSE IF ~ReverseHas(trans_dict, Head(chunks)) THEN [err |-> "KeyError"]
    ELSE AppendLoop(trans_dict, Tail(chunks),
                    Append(tag, ReverseGet(trans_dict, Head(chunks))))

\* the loop "for i, next_transition_tag in enumerate(cyclic_transition)": the
\* iterator is the transition itself, so every item read moves its pointer
RECURSIVE EnumerateLoop(_, _, _, _, _)
EnumerateLoop(tr, trans_dict, symbol_count, i, tag_trans) ==
    LET nt == CyclicTransitionNext(tr)
    IN  IF nt.err # "ok" THEN [err |-> nt.err, tr |-> tr]
        ELSE IF Len(nt.val) = 0 THEN [err |-> "ok", val |-> tag_trans, tr |-> nt.tr]
        ELSE LET ith_tag == [idx \in 1..symbol_count |->
                                IF idx - 1 = i THEN YES ELSE NO]
                 body == IF Len(trans_dict) = 0 THEN [err |-> "ok", val |-> <<>>]
                         ELSE AppendLoop(trans_dict,
                                         Chunks(nt.val, Len(trans_dict)), <<>>)
             IN  IF body.err # "ok" THEN [err |-> body.err, tr |-> nt.tr]
                 ELSE IF ~ReverseHas(trans_dict, ith_tag)
                      THEN [err |-> "KeyError", tr |-> nt.tr]
                 ELSE EnumerateLoop(nt.tr, trans_dict, symbol_count, i + 1,
                                    DictSet(tag_trans,
                                            ReverseGet(trans_dict, ith_tag),
                                            body.val))

\* returns the tag transition and the transition object as the loop left it
cyclic_transition_dict_to_tag_transition(cyclic_transition_, trans_dict) ==
    IF ~ReverseDictOk(trans_dict)
    THEN [err |-> "AssertionError", tr |-> cyclic_transition_]
    ELSE EnumerateLoop(cyclic_transition_, trans_dict,
                       cyclic_transition_to_symbol_count(cyclic_transition_),
                       0, <<>>)

\* cyclic_system_dict_to_tag_system; glob is the module's global name
\* cyclic_transition, which line 74 reads instead of c_transition
cyclic_system_dict_to_tag_system(cyclic_system, trans_dict, glob) ==
    LET c_tape == cyclic_system.tape
        c_transition == cyclic_system.transition
        t_tape == cyclic_tape_dict_to_tag_tape(c_tape, trans_dict)
        t_transition == cyclic_transition_dict_to_tag_transition(c_transition,
                                                                 trans_dict)
        after == [cyclic_system EXCEPT !.transition = t_transition.tr]
        count == cyclic_transition_to_symbol_count(t_transition.tr)
    IN  IF t_tape.err # "ok" THEN [err |-> t_tape.err, sys |-> cyclic_system]
        ELSE IF t_transition.err # "ok"
             THEN [err |-> t_transition.err, sys |-> after]
        ELSE IF ~glob.bound THEN [err |-> "NameError", sys |-> after]
        ELSE IF count = 0 THEN [err |-> "ZeroDivisionError", sys |-> after]
        ELSE IF Len(glob.val.transitions) % count # 0
             THEN [err |-> "AssertionError", sys |-> after]
        ELSE [err |-> "ok", sys |-> after,
              val |-> TagSystem(t_transition.val,
                                Len(glob.val.transitions) \div count, t_tape.val)]

-----------------------------------------------------------------------------
(* assemble_to_turing.py: the Nester.  The registered callables are named;  *)
(* calling one dispatches on its name, next(obj) and == on the object's     *)
(* class.                                                                   *)

\* the while loop has no bound in the code: the model gives it up as "Diverges"
\* after LoopFuel rounds (when counter reaches limit)
LoopFuel == 120

CallTransform(f, obj) ==
    CASE f = "turing_machine_to_tag_system" -> turing_machine_to_tag_system(obj)
      [] f = "tag_system_to_cyclic_machine" -> tag_system_to_cyclic_machine(obj)
      [] f = "copy.deepcopy" -> [err |-> "ok", val |-> obj]

CallInfo(f, obj) ==
    CASE f = "tag_system_to_cyclic_tags_dict" ->
             [err |-> "ok", val |-> tag_system_to_cyclic_tags_dict(obj)]

CallCondition(f, obj) ==
    CASE f = "is_step_passed" -> is_step_passed(obj)
      [] f = "is_tag_step_passed" -> is_tag_step_passed(obj)

\* next(obj)
CallNext(obj) ==
    CASE obj.cls = "BinaryTuring" -> TuringNext(obj)
      [] obj.cls = "TagSystem" -> TagNext(obj)
      [] obj.cls = "CyclicTagSystem" -> CyclicNext(obj)

\* a == b
ObjEq(a, b) ==
    CASE a.cls # b.cls -> FALSE
      [] a.cls = "TagSystem" -> TagSystemEq(a, b)
      [] a.cls = "CyclicTagSystem" -> CyclicSystemEq(a, b)

\* Nester.__init__
Nester ==
    [reg_chain |-> <<>>, info_reg_chain |-> <<>>, infos |-> <<>>,
     conditions |-> <<>>, objs |-> <<>>]

\* Nester.register
NesterRegister(n, transform_func, info_func, condition_func) ==
    [n EXCEPT !.reg_chain = Append(@, transform_func),
              !.info_reg_chain = Append(@, info_func),
              !.conditions = Append(@, condition_func)]

\* the loop of Nester.generate from level i on; infos is appended to, never reset
RECURSIVE GenerateLoop(_, _, _)
GenerateLoop(n, i, next_obj) ==
    IF i > Len(n.reg_chain) THEN [err |-> "ok", val |-> n]
    ELSE LET Body(info, made) ==
                 IF info.err # "ok" THEN [err |-> info.err, val |-> n]
                 ELSE IF made.err # "ok"
                      THEN [err |-> made.err,
                            val |-> [n EXCEPT !.infos = Append(@, info.val)]]
                 ELSE GenerateLoop([n EXCEPT !.infos = Append(@, info.val),
                                             !.objs = Append(@, made.val)],
                                   i + 1, made.val)
         IN  Body(IF n.info_reg_chain[i] = "None"
                  THEN [err |-> "ok", val |-> <<>>]
                  ELSE CallInfo(n.info_reg_chain[i], next_obj),
                  CallTransform(n.reg_chain[i], next_obj))

NesterGenerate(n, base) == GenerateLoop([n EXCEPT !.objs = <<>>], 1, base)

\* while not self.conditions[i](next_obj): next(next_obj); counter += 1
RECURSIVE WhileNot(_, _, _, _)
WhileNot(cond, obj, counter, limit) ==
    LET Body(c, s) ==
            IF c.err # "ok" THEN [err |-> c.err, obj |-> obj, counter |-> counter]
            ELSE IF c.val THEN [err |-> "ok", obj |-> obj, counter |-> counter]
            ELSE IF counter >= limit
                 THEN [err |-> "Diverges", obj |-> obj, counter |-> counter]
            ELSE IF s.err # "ok"
                 THEN [err |-> s.err, obj |-> s.val, counter |-> counter]
            ELSE WhileNot(cond, s.val, counter + 1, limit)
    IN  Body(CallCondition(cond, obj), CallNext(obj))

\* for _ in range(times): next(next_obj); counter += 1; while ...
RECURSIVE ForRange(_, _, _, _)
ForRange(cond, obj, times, counter) ==
    IF times <= 0 THEN [err |-> "ok", obj |-> obj, counter |-> counter]
    ELSE LET Loop(w) ==
                 IF w.err # "ok" THEN w
                 ELSE ForRange(cond, w.obj, times - 1, w.counter)
             Body(s) ==
                 IF s.err # "ok"
                 THEN [err |-> s.err, obj |-> s.val, counter |-> counter]
                 ELSE Loop(WhileNot(cond, s.val, counter + 1, counter + 1 + LoopFuel))
         IN  Body(CallNext(obj))

\* math.prod(prev_count)
RECURSIVE Prod(_)
Prod(lst) == IF Len(lst) = 0 THEN 1 ELSE Head(lst) * Prod(Tail(lst))

\* for i, next_obj in enumerate(self.objs)
RECURSIVE LevelLoop(_, _, _)
LevelLoop(n, i, prev_count) ==
    IF i > Len(n.objs) THEN [err |-> "ok", val |-> n, prev_count |-> prev_count]
    ELSE LET Body(r) ==
                 IF r.err # "ok"
                 THEN [err |-> r.err, val |-> [n EXCEPT !.objs[i] = r.obj],
                       prev_count |-> prev_count]
                 ELSE LevelLoop([n EXCEPT !.objs[i] = r.obj], i + 1,
                                Append(prev_count, r.counter))
         IN  Body(ForRange(n.conditions[i], n.objs[i], Prod(prev_count), 0))

\* Nester.__next__
NesterNext(n, base) ==
    LET Levels(b, r) ==
            [err |-> r.err, base |-> b.val, val |-> r.val,
             prev_count |-> r.prev_count]
        Body(b) ==
            IF b.err # "ok"
            THEN [err |-> b.err, base |-> b.val, val |-> n, prev_count |-> <<>>]
            ELSE Levels(b, LevelLoop(n, 1, <<1>>))
    IN  Body(CallNext(base))

\* Nester.compare
RECURSIVE CompareLoop(_, _, _, _)
CompareLoop(n, i, prev_obj, res) ==
    IF i > Min(Len(n.reg_chain), Len(n.objs)) THEN [err |-> "ok", val |-> res]
    ELSE LET Body(next_compare) ==
                 IF next_compare.err # "ok" THEN [err |-> next_compare.err]
                 ELSE CompareLoop(n, i + 1, n.objs[i],
                                  Append(res, ObjEq(n.objs[i], next_compare.val)))
         IN  Body(CallTransform(n.reg_chain[i], prev_obj))

NesterCompare(n, base) == CompareLoop(n, 1, base, <<>>)

-----------------------------------------------------------------------------
(* Inputs *)

Symbols == {ZERO, ONE}
Moves == {RIGHT, LEFT}
Transitions(states) ==
    {TuringTransition(w, d, n) : w \in Symbols, d \in Moves, n \in states}

Flip(w) == IF w = ZERO THEN ONE ELSE ZERO
Turn(d) == IF d = RIGHT THEN LEFT ELSE RIGHT

\* every table with the single state 0
OneStateTables ==
    {<<TuringStateTransition(0, <<a, b>>)>> : a, b \in Transitions({0})}

\* tables with states 0 and 1: reading ZERO in state 0 writes w, moves d and
\* goes to state 1, reading ONE writes the other symbol, moves the other way
\* and stays; state 1 does the same with the two readings exchanged
TwoStateTables ==
    {<<TuringStateTransition(0, <<TuringTransition(a.write, a.move, 1),
                                  TuringTransition(Flip(a.write), Turn(a.move), 0)>>),
       TuringStateTransition(1, <<TuringTransition(Flip(a.write), Turn(a.move), 0),
                                  TuringTransition(a.write, a.move, 1)>>)>>
        : a \in Transitions({0})}

\* lists with the single state 0 whose transitions on ZERO go to state 1,
\* which the list does not declare
OpenStateLists ==
    {<<TuringStateTransition(0, <<TuringTransition(a.write, a.move, 1),
                                  TuringTransition(Flip(a.write), Turn(a.move), 0)>>)>>
        : a \in Transitions({0})}

\* lists with two entries for state 0
RepeatedStateLists ==
    {<<TuringStateTransition(0, <<a, a>>),
       TuringStateTransition(0, <<TuringTransition(Flip(a.write), Turn(a.move), 0), a>>)>>
        : a \in Transitions({0})}

Tables == OneStateTables \cup TwoStateTables

\* every next_state of the table is one of its states
TableClosed(table) ==
    \A i \in 1..Len(table) : \A j \in 1..Len(table[i].transitions) :
        TableHas(table, table[i].transitions[j].next_state)

TapeTuples(table, max) ==
    {TuringTapeTuple(st, l, r, h) :
        st \in Range(TableStates(table)), l \in 0..max, r \in 0..max, h \in Symbols}

None == [cls |-> "NoneType"]
Unbound == [bound |-> FALSE]

-----------------------------------------------------------------------------
(* The pipeline Turing -> Tag -> Cyclic of assemble_to_turing.py's __main__ *)
(* The driver is that of the script: register the two levels, generate(),   *)
(* compare(), then next(nester) and compare() in turn; after a compare()    *)
(* generate() may be called again.                                          *)

\* generate() is called at most MaxGenerate times
MaxGenerate == 2

PipeInit ==
    /\ \E table \in Tables : \E t \in TapeTuples(table, MaxPipeNumber) :
           machine = set_tape_tuple(BinaryTuring(table, BinaryTuringTape(<<>>)), t)
    /\ nester = Nester
    /\ tag_machine = None
    /\ cyclic_machine = None
    /\ cyclic_transition = Unbound
    /\ steps = 0
    /\ last = [op |-> "init"]

\* nester.register(...), in the order of the chain Turing -> Tag -> Cyclic
Register ==
    /\ Len(nester.reg_chain) < 2
    /\ last.op \in {"init", "register"}
    /\ nester' = IF Len(nester.reg_chain) = 0
                 THEN NesterRegister(nester, "turing_machine_to_tag_system",
                                     "None", "is_step_passed")
                 ELSE NesterRegister(nester, "tag_system_to_cyclic_machine",
                                     "tag_system_to_cyclic_tags_dict",
                                     "is_tag_step_passed")
    /\ last' = [op |-> "register"]
    /\ UNCHANGED <<machine, tag_machine, cyclic_machine, cyclic_transition, steps>>

\* nester.generate()
Generate ==
    /\ Len(nester.reg_chain) = 2
    /\ last.op \in {"register", "compare"}
    /\ Len(nester.infos) < 2 * MaxGenerate
    /\ \E r \in {NesterGenerate(nester, machine)} :
           /\ nester' = r.val
           /\ last' = [op |-> "generate", err |-> r.err]
    /\ UNCHANGED <<machine, tag_machine, cyclic_machine, cyclic_transition, steps>>

\* next(nester)
Advance ==
    /\ steps < MaxAdvance
    /\ last.op = "compare"
    /\ \E r \in {NesterNext(nester, machine)} :
           /\ machine' = r.base
           /\ nester' = r.val
           /\ last' = [op |-> "advance", err |-> r.err,
                       prev_count |-> r.prev_count,
                       base |-> machine, objs |-> nester.objs]
    /\ steps' = steps + 1
    /\ UNCHANGED <<tag_machine, cyclic_machine, cyclic_transition>>

\* nester.compare()
Compare ==
    /\ last.op \in {"generate", "advance"}
    /\ \E r \in {NesterCompare(nester, machine)} :
           last' = [op |-> "compare", err |-> r.err,
                    res |-> IF r.err = "ok" THEN r.val ELSE <<>>]
    /\ UNCHANGED <<machine, tag_machine, cyclic_machine, nester,
                   cyclic_transition, steps>>

PipeNext == Register \/ Generate \/ Advance \/ Compare

SpecPipe == PipeInit /\ [][PipeNext]_vars

-----------------------------------------------------------------------------
(* Claims about the pipeline *)

AllTrue(res) == \A i \in 1..Len(res) : res[i]

\* C1: in the pipeline Turing -> Tag -> Cyclic, from every valid Turing
\* configuration and every table whose next states are declared, compare()
\* returns TRUE for every level right after generate() and after every
\* advance that follows.
C1_CommutingSquare ==
    Len(nester.objs) > 0 =>
        LET r == NesterCompare(nester, machine)
        IN  /\ r.err = "ok"
            /\ Len(r.val) = Len(nester.reg_chain)
            /\ AllTrue(r.val)

\* two levels generated, two advances made, and compare() was called
C1_Witness ==
    /\ Len(nester.objs) = 2
    /\ steps >= 2
    /\ last.op = "compare"
    /\ last.res = <<TRUE, TRUE>>
    /\ left_number(machine.tape) >= 2

\* the number of next() calls after which is_step_passed holds again, counted
\* on a tag system that has taken n >= 1 steps
RECURSIVE StepsUntilPassed(_, _)
StepsUntilPassed(sys, n) ==
    IF is_step_passed(sys).val \/ n > LoopFuel THEN n
    ELSE StepsUntilPassed(TagNext(sys).val, n + 1)

\* C2: one advance of the pipeline makes 1 Turing step, c1 tag steps (the
\* steps, at least one, until is_step_passed holds again) and c1 * c2 cyclic
\* steps, c2 being the length of the cyclic transition list; these are the
\* counts it returns.
C2_StepCounts ==
    (last.op = "advance" /\ last.err = "ok" /\ Len(last.objs) = 2) =>
        LET c1 == StepsUntilPassed(TagNext(last.objs[1]).val, 1)
            c2 == Len(last.objs[2].transition.transitions)
        IN  /\ last.prev_count = <<1, c1, c1 * c2>>
            /\ machine = TuringNext(last.base).val

\* an advance that took more than one tag cycle's worth of cyclic steps
C2_Witness ==
    /\ last.op = "advance"
    /\ last.err = "ok"
    /\ Len(last.prev_count) = 3
    /\ last.prev_count[2] > 3
    /\ last.prev_count[3] = last.prev_count[2] * 20
    /\ steps = 2

\* C9 (as claimed): the tag tape made from the machine passes is_step_passed and
\* tag_tape_to_turing_tape_tuple gives back the machine's tape_tuple; so does
\* the tag tape reached whenever is_step_passed holds again.
C9_DecodeGivesTapeTuple ==
    /\ LET t == turing_machine_to_tag_system(machine)
       IN  t.err = "ok" =>
              /\ is_step_passed(t.val) = [err |-> "ok", val |-> TRUE]
              /\ tag_tape_to_turing_tape_tuple(t.val.tape) = tape_tuple(machine)
    /\ (Len(nester.objs) > 0 /\ is_step_passed(nester.objs[1]).val) =>
           tag_tape_to_turing_tape_tuple(nester.objs[1].tape) = tape_tuple(machine)

\* C14: tag_tape_to_turing_tape_tuple raises on a tag tape holding a symbol
\* that is not digit-tagged and returns a tuple when every symbol is.
C14_DecodeFailsIffNotDigitTagged ==
    Len(nester.objs) > 0 =>
        LET tag_tape == nester.objs[1].tape
            all_tagged == \A i \in 1..Len(tag_tape.tape) : DigitTagged(tag_tape.tape[i])
        IN  (tag_tape_to_turing_tape_tuple(tag_tape).err = "ok") <=> all_tagged

\* C26 (as claimed): after any number of generate() calls the nester holds one
\* derived model and one info entry per registered level, each model derived
\* from the current configuration of the level above.
C26_OneEntryPerLevel ==
    (last.op = "generate" /\ last.err = "ok") =>
        /\ Len(nester.objs) = Len(nester.reg_chain)
        /\ Len(nester.infos) = Len(nester.reg_chain)
        /\ NesterCompare(nester, machine) = [err |-> "ok", val |-> <<TRUE, TRUE>>]

-----------------------------------------------------------------------------
(* The Turing engine alone: BinaryTuring(table, tape), then the tape_tuple  *)
(* setter and next(machine) in any order.                                   *)

RECURSIVE SeqsUpTo(_, _)
SeqsUpTo(S, n) ==
    IF n = 0 THEN {<<>>}
    ELSE LET shorter == SeqsUpTo(S, n - 1)
         IN  shorter \cup {Append(q, x) : q \in shorter, x \in S}

TuringInit ==
    /\ \E states \in Tables \cup OpenStateLists \cup RepeatedStateLists :
       \E raw \in SeqsUpTo({0, 1}, MaxRaw) :
       \E table \in {TuringTransitionTable(states)} :
           /\ machine = IF table.err = "ok"
                        THEN BinaryTuring(table.val, BinaryTuringTape(raw))
                        ELSE None
           /\ last = [op |-> "init", err |-> table.err, states |-> states]
    /\ tag_machine = None
    /\ cyclic_machine = None
    /\ nester = None
    /\ cyclic_transition = Unbound
    /\ steps = 0

\* machine.tape_tuple = value
SetTapeTuple ==
    /\ machine # None
    /\ \E value \in TapeTuples(machine.table, MaxNumber) :
           /\ machine' = set_tape_tuple(machine, value)
           /\ last' = [op |-> "set", value |-> value]
    /\ UNCHANGED <<tag_machine, cyclic_machine, nester, cyclic_transition, steps>>

\* next(machine)
TuringStep ==
    /\ machine # None
    /\ steps < MaxSteps
    /\ LET r == TuringNext(machine)
       IN  /\ machine' = r.val
           /\ last' = [op |-> "next", err |-> r.err, base |-> machine]
    /\ steps' = steps + 1
    /\ UNCHANGED <<tag_machine, cyclic_machine, nester, cyclic_transition>>

TuringSpecNext == SetTapeTuple \/ TuringStep

SpecTuring == TuringInit /\ [][TuringSpecNext]_vars

\* C13: with a table that declares the current state and every next state,
\* next(machine) completes without error from every tape the constructor
\* accepts (from a TapeTuple, a raw list, or no tape), after any steps.
C13_StepNeverFails ==
    (/\ last.op = "next"
     /\ TableHas(last.base.table, last.base.state)
     /\ TableClosed(last.base.table)) => last.err = "ok"

\* C16: next(machine) in a state the table does not declare raises and leaves
\* the tape, the head and the state as they were; TuringTransitionTable raises
\* on a list with two entries for one state id, and no table is made.
C16_MissingStateFails ==
    /\ (last.op = "next" /\ ~TableHas(last.base.table, last.base.state)) =>
           /\ last.err # "ok"
           /\ machine.tape = last.base.tape
           /\ machine.state = last.base.state
    /\ (last.op = "init" /\ \E i, j \in 1..Len(last.states) :
                                i # j /\ last.states[i].state = last.states[j].state) =>
           /\ last.err = "AssertionError"
           /\ machine = None
    /\ machine # None =>
           \A i, j \in 1..Len(machine.table) :
               machine.table[i].state = machine.table[j].state => i = j

\* a machine that walked into the undeclared state 1 and was stepped there
C16_Witness ==
    /\ last.op = "next"
    /\ last.err = "KeyError"
    /\ last.base.state = 1
    /\ steps = 3
    /\ Len(machine.tape.tape) > 1
    /\ machine = last.base

\* C18: a step from tape_tuple (s, L, R, h) with (w, d, s') the table's
\* transition of s on h ends in (s', 2L + w, R div 2, R mod 2) when d is RIGHT
\* and in (s', L div 2, 2R + w, L mod 2) when d is LEFT.
C18_StepIsArithmetic ==
    (last.op = "next" /\ last.err = "ok") =>
        LET old == tape_tuple(last.base).val
            transition == TableGet(last.base.table, old.state).transitions[
                              IF old.head = ZERO THEN 1 ELSE 2]
            w == IF transition.write = ONE THEN 1 ELSE 0
            L == old.left_number
            R == old.right_number
        IN  /\ tape_tuple(last.base).err = "ok"
            /\ tape_tuple(machine) =
                 [err |-> "ok",
                  val |-> IF transition.move = RIGHT
                          THEN TuringTapeTuple(transition.next_state, 2 * L + w,
                                   R \div 2, IF R % 2 = 1 THEN ONE ELSE ZERO)
                          ELSE TuringTapeTuple(transition.next_state, L \div 2,
                                   2 * R + w, IF L % 2 = 1 THEN ONE ELSE ZERO)]

\* a step to the left from a tape with two cells on the left of the head
C18_Witness ==
    /\ last.op = "next"
    /\ last.err = "ok"
    /\ steps >= 2
    /\ tape_tuple(last.base).val.left_number >= 2
    /\ tape_tuple(last.base).val.right_number >= 1
    /\ tape_tuple(machine).val.right_number >= 2
    /\ tape_tuple(machine).val.left_number = tape_tuple(last.base).val.left_number \div 2

\* C25: on a tape that was not empty when made, head - tape_offset is an index
\* of the list in every state, and a step moves head by exactly -1 (LEFT) or
\* +1 (RIGHT).
C25_HeadIndexInWindow ==
    /\ (machine # None /\ machine.tape # BinaryTuringTape(<<>>)) =>
           /\ 0 <= _head_addr(machine.tape)
           /\ _head_addr(machine.tape) < Len(machine.tape.tape)
    /\ (last.op = "next" /\ last.err = "ok") =>
           LET transition == TableGet(last.base.table, last.base.state).transitions[
                                 IF head_symbol(last.base.tape).val = ZERO THEN 1 ELSE 2]
           IN  machine.tape.head = last.base.tape.head +
                   (IF transition.move = RIGHT THEN 1 ELSE -1)

\* a machine that went left of where its head started
C25_Witness ==
    /\ last.op = "next"
    /\ last.err = "ok"
    /\ steps = 3
    /\ machine.tape.head = -2
    /\ machine.tape.tape_offset < 0
    /\ _head_addr(machine.tape) = 0
    /\ Len(machine.tape.tape) > 1

\* C3: a machine whose configuration was just set from a TapeTuple t reports
\* tape_tuple equal to t in state, left_number, right_number and head.
C3_TapeTupleRoundTrip ==
    last.op = "set" => tape_tuple(machine) = [err |-> "ok", val |-> last.value]

\* a tuple with two-bit numbers on both sides, set on a machine that has run
C3_Witness ==
    /\ last.op = "set"
    /\ last.value.left_number = 2
    /\ last.value.right_number = 2
    /\ last.value.head = ONE
    /\ steps > 0
    /\ tape_tuple(machine).val = last.value

-----------------------------------------------------------------------------
(* The tag engine alone: TagSystem(transition, num, tape), then next().     *)

\* tag symbols are Python strings
sa == <<"a">>
sb == <<"b">>
sc == <<"c">>

\* the transitions over the first one or two symbols, productions over the keys
TagTransitions ==
    {<<Item(sa, p)>> : p \in SeqsUpTo({sa}, MaxProd)}
    \cup {<<Item(sa, p), Item(sb, q)>> : p, q \in SeqsUpTo({sa, sb}, MaxProd)}

\* tag_system.py's __main__: the default num is 2
DemoTagSystem ==
    TagSystem(<<Item(sa, <<sb, sc>>), Item(sb, <<sa>>), Item(sc, <<sa, sa, sa, sa>>)>>,
              2, TagSysTape(<<sa, sa, sa>>))

\* the tape may hold a symbol without production
TagSystems ==
    {TagSystem(tr, num, TagSysTape(tape)) :
        tr \in TagTransitions, num \in 1..MaxNum,
        tape \in SeqsUpTo({sa, sb, sc}, MaxTape)}
    \cup {DemoTagSystem}

TagInit ==
    /\ tag_machine \in TagSystems
    /\ machine = None
    /\ cyclic_machine = None
    /\ nester = None
    /\ cyclic_transition = Unbound
    /\ steps = 0
    /\ last = [op |-> "init", start |-> tag_machine]

\* next(tag_machine)
TagStep ==
    /\ steps < MaxSteps
    /\ LET r == TagNext(tag_machine)
       IN  /\ tag_machine' = r.val
           /\ last' = [op |-> "next", err |-> r.err, pre |-> tag_machine,
                       start |-> last.start]
    /\ steps' = steps + 1
    /\ UNCHANGED <<machine, cyclic_machine, nester, cyclic_transition>>

SpecTag == TagInit /\ [][TagStep]_vars

\* the production looked up by the step just taken
LastProduction == DictGet(last.pre.transition, Head(last.pre.tape.tape))

\* C5 (as claimed): a successful step discards exactly the num symbols at the
\* front of the old tape and keeps the whole production, whatever the length
\* of the tape.
C5_DiscardsOldFrontOnly ==
    (last.op = "next" /\ last.err = "ok") =>
        tag_machine.tape.tape =
            Drop(last.pre.tape.tape, last.pre.num) \o LastProduction

\* C5 (amended): a successful step appends the production and then discards the
\* first num symbols of the result: on a tape of at least num symbols that is
\* the old tape without its first num symbols followed by the whole production,
\* on a shorter tape the whole old tape and the first num - len(tape) symbols
\* of the production are discarded.
C5_AppendThenDiscard ==
    (last.op = "next" /\ last.err = "ok") =>
        LET old == last.pre.tape.tape
            num == last.pre.num
        IN  /\ Len(old) >= num =>
                 tag_machine.tape.tape = Drop(old, num) \o LastProduction
            /\ Len(old) < num =>
                 tag_machine.tape.tape = Drop(LastProduction, num - Len(old))
            /\ tag_machine.transition = last.pre.transition
            /\ tag_machine.num = num

\* a step on a tape shorter than num that eats into its production
C5_Witness ==
    /\ last.op = "next"
    /\ last.err = "ok"
    /\ Len(last.pre.tape.tape) < last.pre.num
    /\ Len(LastProduction) = 2
    /\ Len(tag_machine.tape.tape) = 1
    /\ tag_machine.tape.tape # Drop(last.pre.tape.tape, last.pre.num) \o LastProduction

\* C7 (as claimed): the demo system has tape [a,a,a] before any step, [a,b,c]
\* after one step and [b,c,a] after two.
C7_DemoTraceClaimed ==
    last.start = DemoTagSystem =>
        /\ steps = 0 => tag_machine.tape.tape = <<sa, sa, sa>>
        /\ steps = 1 => tag_machine.tape.tape = <<sa, sb, sc>>
        /\ steps = 2 => tag_machine.tape.tape = <<sb, sc, sa>>

\* C7 (amended): the demo system has tape [a,a,a] before any step, [a,b,c]
\* after one step and [c,b,c] after two.
C7_DemoTrace ==
    last.start = DemoTagSystem =>
        /\ steps = 0 => tag_machine.tape.tape = <<sa, sa, sa>>
        /\ steps = 1 => tag_machine.tape.tape = <<sa, sb, sc>>
        /\ steps = 2 => tag_machine.tape.tape = <<sc, sb, sc>>

\* the demo after its second step
C7_Witness ==
    /\ last.start = DemoTagSystem
    /\ steps = 2
    /\ last.op = "next"
    /\ last.err = "ok"
    /\ last.pre.tape.tape = <<sa, sb, sc>>
    /\ tag_machine.tape.tape = <<sc, sb, sc>>

\* C8: when the front symbol has no production the step signals Halted
\* (StopIteration) and leaves tape, transition and num as they were; when it
\* has one the step does not signal Halted; the error of an empty tape is
\* another condition (IndexError).
C8_Halted ==
    last.op = "next" =>
        LET old == last.pre.tape.tape
        IN  /\ (Len(old) > 0 /\ ~DictHas(last.pre.transition, Head(old))) =>
                  /\ last.err = "StopIteration"
                  /\ tag_machine = last.pre
            /\ (Len(old) > 0 /\ DictHas(last.pre.transition, Head(old))) =>
                  last.err = "ok"
            /\ Len(old) = 0 => last.err = "IndexError"

\* C27 (as claimed): next(tag_machine) either completes or signals Halted
\* (StopIteration) on every tape, and on the empty tape it signals Halted.
C27_StepOrHalted ==
    last.op = "next" =>
        /\ last.err \in {"ok", "StopIteration"}
        /\ Len(last.pre.tape.tape) = 0 => last.err = "StopIteration"

\* a system that halts on a symbol without production after a successful step
C8_Witness ==
    /\ last.op = "next"
    /\ last.err = "StopIteration"
    /\ steps = 2
    /\ Len(tag_machine.tape.tape) > 0
    /\ ~DictHas(tag_machine.transition, Head(tag_machine.tape.tape))
    /\ tag_machine = last.pre
    /\ tag_machine # last.start

-----------------------------------------------------------------------------
(* The cyclic tag engine alone: CyclicTagSystem(transition, tape), then     *)
(* next().                                                                  *)

CyclicTags == SeqsUpTo({NO, YES}, MaxProd)

\* the non-empty transition lists
CyclicLists == SeqsUpTo(CyclicTags, MaxTrans) \ {<<>>}

\* cyclic_tag.py's __main__
DemoCyclicSystem ==
    CyclicTagSystem(
        CyclicTransition(<< <<YES, YES>>, <<NO, NO, YES, YES>>, <<YES, YES, NO, YES>> >>),
        CyclicTape(<<NO, YES, YES, NO, YES, YES, YES, NO, YES>>))

CyclicSystems ==
    {CyclicTagSystem(CyclicTransition(l), CyclicTape(t)) :
        l \in CyclicLists, t \in SeqsUpTo({NO, YES}, MaxTape)}
    \cup {DemoCyclicSystem}

CyclicInit ==
    /\ cyclic_machine \in CyclicSystems
    /\ machine = None
    /\ tag_machine = None
    /\ nester = None
    /\ cyclic_transition = Unbound
    /\ steps = 0
    /\ last = [op |-> "init", start |-> cyclic_machine]

\* next(cyclic_machine)
CyclicStep ==
    /\ steps < MaxSteps
    /\ LET r == CyclicNext(cyclic_machine)
       IN  /\ cyclic_machine' = r.val
           /\ last' = [op |-> "next", err |-> r.err, pre |-> cyclic_machine,
                       start |-> last.start]
    /\ steps' = steps + 1
    /\ UNCHANGED <<machine, tag_machine, nester, cyclic_transition>>

SpecCyclic == CyclicInit /\ [][CyclicStep]_vars

\* C6: a step on a non-empty tape removes the front symbol, moves the pointer
\* to (pointer + 1) mod the list length whatever the symbol was, and appends
\* the tag the pointer selected before moving if the symbol was YES, nothing if
\* it was NO; the pointer stays within the list, and the n-th step, counted
\* from 0, uses entry n mod length.
C6_CyclicStep ==
    /\ 0 <= cyclic_machine.transition.point
    /\ cyclic_machine.transition.point < Len(cyclic_machine.transition.transitions)
    /\ (last.op = "next" /\ Len(last.pre.tape.tape) > 0) =>
           LET old == last.pre.tape.tape
               list == last.pre.transition.transitions
               pointer == last.pre.transition.point
           IN  /\ last.err = "ok"
               /\ pointer = (steps - 1) % Len(list)
               /\ cyclic_machine.transition.transitions = list
               /\ cyclic_machine.transition.point = (pointer + 1) % Len(list)
               /\ Head(old) = YES =>
                      cyclic_machine.tape.tape = Tail(old) \o list[pointer + 1]
               /\ Head(old) = NO => cyclic_machine.tape.tape = Tail(old)
    /\ (last.start = DemoCyclicSystem /\ steps = 3) =>
           /\ cyclic_machine.tape.tape =
                  <<NO, YES, YES, YES, NO, YES, NO, NO, YES, YES, YES, YES, NO, YES>>
           /\ cyclic_machine.transition.point = 0

\* a third step that wrapped the pointer of a two-entry list and appended a tag
C6_Witness ==
    /\ last.op = "next"
    /\ last.err = "ok"
    /\ steps = 3
    /\ Len(last.pre.transition.transitions) = 2
    /\ last.pre.transition.point = 0
    /\ cyclic_machine.transition.point = 1
    /\ Head(last.pre.tape.tape) = YES
    /\ Len(last.pre.transition.transitions[1]) = 2
    /\ Len(cyclic_machine.tape.tape) = Len(last.pre.tape.tape) + 1

-----------------------------------------------------------------------------
(* The reduction Tag -> Cyclic and back: tag_system_to_cyclic_machine, then *)
(* cyclic_system_dict_to_tag_system with the dictionary of the tag system.  *)
(* The decoder reads the module's global name cyclic_transition: bound to   *)
(* the transition built when tag_to_cyclic.py runs as a script, not bound   *)
(* when the module is imported.                                             *)

ReduceInit ==
    /\ tag_machine \in TagSystems
    /\ machine = None
    /\ cyclic_machine = None
    /\ nester = None
    /\ cyclic_transition = Unbound
    /\ steps = 0
    /\ last = [op |-> "init"]

\* cyclic_machine = tag_system_to_cyclic_machine(tag_machine)
EncodeTag ==
    /\ last.op = "init"
    /\ LET r == tag_system_to_cyclic_machine(tag_machine)
       IN  IF r.err # "ok"
           THEN /\ last' = [op |-> "encode", err |-> r.err]
                /\ UNCHANGED <<cyclic_machine, cyclic_transition>>
           ELSE /\ last' = [op |-> "encode", err |-> "ok"]
                /\ cyclic_machine' = r.val
                /\ cyclic_transition' \in
                       {Unbound, [bound |-> TRUE, val |-> r.val.transition]}
    /\ UNCHANGED <<machine, tag_machine, nester, steps>>

\* cyclic_system_dict_to_tag_system(cyclic_machine, tags_dict)
DecodeCyclic ==
    /\ steps < MaxSteps
    /\ cyclic_machine # None
    /\ LET r == cyclic_system_dict_to_tag_system(
                    cyclic_machine, tag_system_to_cyclic_tags_dict(tag_machine),
                    cyclic_transition)
       IN  /\ cyclic_machine' = r.sys
           /\ last' = IF r.err = "ok"
                      THEN [op |-> "decode", err |-> "ok", val |-> r.val,
                            dict |-> tag_system_to_cyclic_tags_dict(tag_machine)]
                      ELSE [op |-> "decode", err |-> r.err,
                            dict |-> tag_system_to_cyclic_tags_dict(tag_machine)]
    /\ steps' = steps + 1
    /\ UNCHANGED <<machine, tag_machine, nester, cyclic_transition>>

ReduceNext == EncodeTag \/ DecodeCyclic

SpecReduce == ReduceInit /\ [][ReduceNext]_vars

\* the tag systems of the claims: every symbol of the tape and of the
\* productions is a symbol of the alphabet
OverAlphabet(sys) ==
    /\ AllKeys(sys.transition, sys.tape.tape)
    /\ \A i \in 1..Len(sys.transition) :
           AllKeys(sys.transition, sys.transition[i].val)

\* C4 (as claimed): decoding the encoding of a tag system T with the dictionary
\* of T gives a tag system with T's transition, T's tape and T's num.
C4_EncodeDecode ==
    (last.op = "decode" /\ steps = 1 /\ OverAlphabet(tag_machine)) =>
        /\ last.err = "ok"
        /\ DictEq(last.val.transition, tag_machine.transition)
        /\ last.val.tape = tag_machine.tape
        /\ last.val.num = tag_machine.num

\* C10 (as claimed): the cyclic transition list of a tag system with A symbols
\* and deletion number num has A * num entries: entry i < A is the
\* concatenation of the one-hot codes of the production of the i-th symbol, the
\* other A * (num - 1) entries are empty.
C10_TransitionList ==
    (last.op = "encode" /\ last.err = "ok") =>
        LET A == Len(tag_machine.transition)
            list == cyclic_machine.transition.transitions
        IN  /\ Len(list) = A * tag_machine.num
            /\ \A i \in 1..Len(list) :
                   IF i <= A
                   THEN /\ Len(list[i]) = Len(tag_machine.transition[i].val) * A
                        /\ list[i] = ExtendAll(tag_system_to_cyclic_tags_dict(tag_machine),
                                               tag_machine.transition[i].val)
                   ELSE list[i] = <<>>

\* C11: the dictionary gives the i-th key of the transition a tag of length A
\* with YES at position i and NO elsewhere; distinct symbols get distinct tags,
\* every one-hot word of length A is the tag of a symbol, and a second call
\* returns the same dictionary.
C11_OneHotDictionary ==
    LET d == tag_system_to_cyclic_tags_dict(tag_machine)
        A == Len(tag_machine.transition)
    IN  /\ Len(d) = A
        /\ \A i \in 1..A :
               /\ d[i].key = tag_machine.transition[i].key
               /\ Len(d[i].val) = A
               /\ \A j \in 1..A : d[i].val[j] = IF j = i THEN YES ELSE NO
        /\ \A i, j \in 1..A : d[i].val = d[j].val => i = j
        /\ \A w \in [1..A -> {NO, YES}] :
               Cardinality({j \in 1..A : w[j] = YES}) = 1 =>
                   \E i \in 1..A : d[i].val = w
        /\ last.op = "decode" => last.dict = d

\* the dictionary of the three-symbol demo system, used by a decoding
C11_Witness ==
    /\ last.op = "decode"
    /\ Len(tag_machine.transition) = 3
    /\ last.dict = <<Item(sa, <<YES, NO, NO>>), Item(sb, <<NO, YES, NO>>),
                     Item(sc, <<NO, NO, YES>>)>>

-----------------------------------------------------------------------------
(* Two Turing engines with the same table.  Engine b may have run before    *)
(* both are given the same TapeTuple through the tape_tuple setter; then    *)
(* each is stepped on its own.  machine and steps hold one entry per        *)
(* engine.                                                                  *)

TwinInit ==
    /\ \E table \in Tables : \E rawA, rawB \in SeqsUpTo({0, 1}, MaxRaw) :
           machine = [a |-> BinaryTuring(table, BinaryTuringTape(rawA)),
                      b |-> BinaryTuring(table, BinaryTuringTape(rawB))]
    /\ tag_machine = None
    /\ cyclic_machine = None
    /\ nester = None
    /\ cyclic_transition = Unbound
    /\ steps = [a |-> 0, b |-> 0]
    /\ last = [op |-> "init"]

\* next(b) before the engines are set
TwinRunBefore ==
    /\ last.op \in {"init", "before"}
    /\ steps.b < MaxSteps
    /\ TuringNext(machine.b).err = "ok"
    /\ machine' = [machine EXCEPT !.b = TuringNext(machine.b).val]
    /\ steps' = [steps EXCEPT !.b = @ + 1]
    /\ last' = [op |-> "before"]
    /\ UNCHANGED <<tag_machine, cyclic_machine, nester, cyclic_transition>>

\* a.tape_tuple = value; b.tape_tuple = value
TwinSet ==
    /\ last.op \in {"init", "before"}
    /\ \E value \in TapeTuples(machine.a.table, MaxNumber) :
           /\ machine' = [a |-> set_tape_tuple(machine.a, value),
                          b |-> set_tape_tuple(machine.b, value)]
           /\ last' = [op |-> "set", value |-> value]
    /\ steps' = [a |-> 0, b |-> 0]
    /\ UNCHANGED <<tag_machine, cyclic_machine, nester, cyclic_transition>>

\* next(a)
TwinStepA ==
    /\ last.op \in {"set", "step"}
    /\ steps.a < MaxSteps
    /\ machine' = [machine EXCEPT !.a = TuringNext(machine.a).val]
    /\ steps' = [steps EXCEPT !.a = @ + 1]
    /\ last' = [op |-> "step", value |-> last.value]
    /\ UNCHANGED <<tag_machine, cyclic_machine, nester, cyclic_transition>>

\* next(b)
TwinStepB ==
    /\ last.op \in {"set", "step"}
    /\ steps.b < MaxSteps
    /\ machine' = [machine EXCEPT !.b = TuringNext(machine.b).val]
    /\ steps' = [steps EXCEPT !.b = @ + 1]
    /\ last' = [op |-> "step", value |-> last.value]
    /\ UNCHANGED <<tag_machine, cyclic_machine, nester, cyclic_transition>>

TwinNext == TwinRunBefore \/ TwinSet \/ TwinStepA \/ TwinStepB

SpecTwin == TwinInit /\ [][TwinNext]_vars

\* C12: two engines with the same table, set from the same TapeTuple and
\* stepped the same number of times, report the same tape_tuple.
C12_SameTupleAfterSameSteps ==
    (last.op \in {"set", "step"} /\ steps.a = steps.b) =>
        /\ tape_tuple(machine.a) = tape_tuple(machine.b)
        /\ tape_tuple(machine.a).err = "ok"

\* both engines three steps after a set that found them in different states
C12_Witness ==
    /\ last.op = "step"
    /\ steps.a = 3
    /\ steps.b = 3
    /\ last.value.state = 1
    /\ tape_tuple(machine.a) = tape_tuple(machine.b)
    /\ tape_tuple(machine.a).val # last.value

\* C15: cyclic_system_dict_to_tag_system raises when the cyclic tape length is
\* not a multiple of the dictionary size or the transition list length is not a
\* multiple of the length of its trailing run of empty tags, and raises nothing
\* on the encoding of a tag system over its alphabet.
C15_DecodeErrorIffMalformed ==
    (last.op = "decode" /\ OverAlphabet(tag_machine)) =>
        LET list == cyclic_machine.transition.transitions
            run == Cardinality({k \in 1..Len(list) :
                       \A i \in (Len(list) - k + 1)..Len(list) : list[i] = <<>>})
            malformed == \/ Len(cyclic_machine.tape.tape) % Len(last.dict) # 0
                         \/ run = 0
                         \/ Len(list) % Max(run, 1) # 0
        IN  (last.err # "ok") <=> malformed

-----------------------------------------------------------------------------
(* A Nester over a cyclic tag system with up to MaxLevels levels, each       *)
(* registered as nester.register(copy.deepcopy, None, is_tag_step_passed):   *)
(* every level is a copy of the base, and one predicate cycle of a level is  *)
(* one revolution of its pointer.                                            *)

MaxLevels == 3

NestInit ==
    /\ cyclic_machine \in CyclicSystems
    /\ nester = Nester
    /\ machine = None
    /\ tag_machine = None
    /\ cyclic_transition = Unbound
    /\ steps = 0
    /\ last = [op |-> "init"]

\* nester.register(copy.deepcopy, None, is_tag_step_passed)
NestRegister ==
    /\ Len(nester.reg_chain) < MaxLevels
    /\ last.op \in {"init", "register"}
    /\ nester' = NesterRegister(nester, "copy.deepcopy", "None", "is_tag_step_passed")
    /\ last' = [op |-> "register"]
    /\ UNCHANGED <<machine, tag_machine, cyclic_machine, cyclic_transition, steps>>

\* nester.generate()
NestGenerate ==
    /\ last.op = "register"
    /\ \E r \in {NesterGenerate(nester, cyclic_machine)} :
           /\ nester' = r.val
           /\ last' = [op |-> "generate", err |-> r.err]
    /\ UNCHANGED <<machine, tag_machine, cyclic_machine, cyclic_transition, steps>>

\* next(nester)
NestAdvance ==
    /\ steps < MaxAdvance
    /\ last.op \in {"generate", "advance"}
    /\ last.err = "ok"
    /\ \E r \in {NesterNext(nester, cyclic_machine)} :
           /\ cyclic_machine' = r.base
           /\ nester' = r.val
           /\ last' = [op |-> "advance", err |-> r.err,
                       prev_count |-> r.prev_count,
                       base |-> cyclic_machine, objs |-> nester.objs]
    /\ steps' = steps + 1
    /\ UNCHANGED <<machine, tag_machine, cyclic_transition>>

NestNext == NestRegister \/ NestGenerate \/ NestAdvance

SpecNest == NestInit /\ [][NestNext]_vars

\* C17 (as claimed): in one advance the number of predicate cycles run at a
\* level equals the number of steps consumed at the level above it, the base
\* counting 1: with every level starting a revolution, the steps consumed at a
\* level are the steps consumed above it times the length of a revolution.
C17_CyclesEqualStepsAbove ==
    (/\ last.op = "advance"
     /\ last.err = "ok"
     /\ \A i \in 1..Len(last.objs) : last.objs[i].transition.point = 0) =>
        /\ Len(last.prev_count) = Len(nester.objs) + 1
        /\ last.prev_count[1] = 1
        /\ \A k \in 1..Len(nester.objs) :
               last.prev_count[k + 1] =
                   last.prev_count[k] * Len(nester.objs[k].transition.transitions)

\* C19: on a tape built by from_tape_tuple and stepped, the first
\* cell of the list is ONE or the head cell and so is the last, and the list
\* and the head's index in it are those of from_tape_tuple(tape_tuple).
C19_WindowIsTrimmed ==
    last.op \in {"set", "step"} =>
        LET t == machine.a.tape
            fresh == from_tape_tuple(tape_tuple(machine.a).val)
        IN  /\ Len(t.tape) > 0
            /\ t.tape[1] = ONE \/ _head_addr(t) = 0
            /\ t.tape[Len(t.tape)] = ONE \/ _head_addr(t) = Len(t.tape) - 1
            /\ t.tape = fresh.tape
            /\ _head_addr(t) = _head_addr(fresh)

\* engine a three steps after being set, its window trimmed at the front
C19_Witness ==
    /\ last.op = "step"
    /\ steps.a = 3
    /\ machine.a.tape.tape_offset > 0
    /\ last.value.left_number = 2
    /\ machine.a.tape.tape = from_tape_tuple(tape_tuple(machine.a).val).tape
    /\ Len(machine.a.tape.tape) < Len(from_tape_tuple(last.value).tape)

-----------------------------------------------------------------------------
(* One tag step at the cyclic level, as tag_to_cyclic.py's __main__ runs it:  *)
(* next(cyclic_machine), then next(cyclic_machine) while is_tag_step_passed  *)
(* is false.                                                                *)

\* next(cyclic_machine); while not is_tag_step_passed(cyclic_machine): next(...)
RevolveCyclic ==
    /\ steps < MaxSteps
    /\ cyclic_machine # None
    /\ \E r \in {ForRange("is_tag_step_passed", cyclic_machine, 1, 0)} :
           /\ cyclic_machine' = r.obj
           /\ last' = [op |-> "revolve", err |-> r.err, counter |-> r.counter]
    /\ steps' = steps + 1
    /\ UNCHANGED <<machine, tag_machine, nester, cyclic_transition>>

RevolveNext == EncodeTag \/ RevolveCyclic

SpecRevolve == ReduceInit /\ [][RevolveNext]_vars

\* C20 (as claimed): for a tag system whose head symbol has a production, the
\* cyclic machine made from it and stepped until is_tag_step_passed holds
\* again has gone through the whole transition list and its tape is the
\* encoding of the tag system's tape after one next().
C20_RevolutionIsTagStep ==
    (/\ last.op = "revolve"
     /\ steps = 1
     /\ OverAlphabet(tag_machine)
     /\ Len(tag_machine.tape.tape) > 0
     /\ DictHas(tag_machine.transition, tag_machine.tape.tape[1])) =>
        /\ last.err = "ok"
        /\ last.counter = Len(cyclic_machine.transition.transitions)
        /\ TagNext(tag_machine).err = "ok"
        /\ [err |-> "ok", val |-> cyclic_machine.tape] =
               tag_system_to_cyclic_tape(TagNext(tag_machine).val)

-----------------------------------------------------------------------------
(* The tag tape of a Turing configuration *)

\* the symbols of the tape whose role letter is role
RoleCount(tape, role) == Cardinality({i \in 1..Len(tape) : tape[i][1] = role})

\* C21 (as claimed): the tag tape holds 2 * (number of bits of left_number)
\* L symbols and 2 * (number of bits of right_number) R symbols after the H
\* symbols.
C21_TwoSymbolsPerBit ==
    (machine # None /\ tape_tuple(machine).err = "ok") =>
        LET tape == turing_machine_to_tag_tape(machine).val.tape
            t == tape_tuple(machine).val
        IN  /\ RoleCount(tape, "L") = 2 * bit_length(t.left_number)
            /\ RoleCount(tape, "R") = 2 * bit_length(t.right_number)

\* C21: the tag tape holds the H symbols (two for head ONE, one for head
\* ZERO), then 2 * left_number L symbols, then 2 * right_number R symbols:
\* one pair per unit of the number's value.
C21_TwoSymbolsPerUnit ==
    (machine # None /\ tape_tuple(machine).err = "ok") =>
        LET made == turing_machine_to_tag_tape(machine)
            t == tape_tuple(machine).val
            h == IF t.head = ONE THEN 2 ELSE 1
        IN  /\ made.err = "ok"
            /\ Len(made.val.tape) = h + 2 * t.left_number + 2 * t.right_number
            /\ \A i \in 1..Len(made.val.tape) :
                   made.val.tape[i][1] =
                       IF i <= h THEN "H"
                       ELSE IF i <= h + 2 * t.left_number THEN "L" ELSE "R"

\* a configuration whose left number has fewer bits than units
C21_Witness ==
    /\ machine # None
    /\ tape_tuple(machine).err = "ok"
    /\ tape_tuple(machine).val.left_number = 5
    /\ tape_tuple(machine).val.right_number = 1
    /\ RoleCount(turing_machine_to_tag_tape(machine).val.tape, "L") = 10
    /\ RoleCount(turing_machine_to_tag_tape(machine).val.tape, "R") = 2

\* C22 (as claimed): tag_system_to_cyclic_machine leaves the tag system as it
\* was, and cyclic_system_dict_to_tag_system leaves the cyclic system as it
\* was: tape, transition list and pointer.
C22_ReducersKeepInput ==
    [][/\ last'.op = "encode" => tag_machine' = tag_machine
       /\ last'.op = "decode" => cyclic_machine' = cyclic_machine]_vars

-----------------------------------------------------------------------------
(* One next(nester) of the pipeline Turing -> Tag -> Cyclic, one engine step *)
(* at a time: next(base), then the tag level's round (a step, then steps     *)
(* while is_step_passed is false), then as many cyclic rounds as the tag     *)
(* level took steps.  steps is the tag level's counter; last.rounds is the   *)
(* number of cyclic rounds still to start and last.wait the number of steps  *)
(* taken in the while loop of the round under way.  The loops have no bound  *)
(* in the code; a wait is given up after LoopFuel steps.                     *)

\* the state after register, register, generate
WaitInit ==
    /\ \E table \in Tables : \E t \in TapeTuples(table, MaxPipeNumber) :
           machine = set_tape_tuple(BinaryTuring(table, BinaryTuringTape(<<>>)), t)
    /\ tag_machine = turing_machine_to_tag_system(machine).val
    /\ cyclic_machine = tag_system_to_cyclic_machine(tag_machine).val
    /\ nester = None
    /\ cyclic_transition = Unbound
    /\ steps = 0
    /\ last = [op |-> "init"]

\* next(self.base)
WaitBase ==
    /\ last.op = "init"
    /\ TuringNext(machine).err = "ok"
    /\ machine' = TuringNext(machine).val
    /\ last' = [op |-> "base"]
    /\ UNCHANGED <<tag_machine, cyclic_machine, nester, cyclic_transition, steps>>

\* level 0: next(next_obj); counter += 1, once and then while the condition fails
WaitTag ==
    /\ \/ last.op = "base"
       \/ /\ last.op = "tag"
          /\ ~is_step_passed(tag_machine).val
          /\ last.wait < LoopFuel
    /\ TagNext(tag_machine).err = "ok"
    /\ tag_machine' = TagNext(tag_machine).val
    /\ steps' = steps + 1
    /\ last' = [op |-> "tag", wait |-> IF last.op = "base" THEN 0 ELSE last.wait + 1]
    /\ UNCHANGED <<machine, cyclic_machine, nester, cyclic_transition>>

\* level 1: range(prev_count product) rounds of the same loop
WaitCyclic ==
    /\ \/ last.op = "tag" /\ is_step_passed(tag_machine).val
       \/ /\ last.op = "cyclic"
          /\ IF is_tag_step_passed(cyclic_machine).val
             THEN last.rounds > 0
             ELSE last.wait < LoopFuel
    /\ CyclicNext(cyclic_machine).err = "ok"
    /\ cyclic_machine' = CyclicNext(cyclic_machine).val
    /\ last' = IF last.op = "tag"
               THEN [op |-> "cyclic", rounds |-> steps - 1, wait |-> 0]
               ELSE IF is_tag_step_passed(cyclic_machine).val
                    THEN [op |-> "cyclic", rounds |-> last.rounds - 1, wait |-> 0]
                    ELSE [op |-> "cyclic", rounds |-> last.rounds, wait |-> last.wait + 1]
    /\ UNCHANGED <<machine, tag_machine, nester, cyclic_transition, steps>>

WaitNext == WaitBase \/ WaitTag \/ WaitCyclic

\* the loops run without pause: a step that can be taken is taken
SpecWait == WaitInit /\ [][WaitNext]_vars /\ WF_vars(WaitNext)

\* next(nester) has returned: the last cyclic round has ended
WaitDone ==
    /\ last.op = "cyclic"
    /\ last.rounds = 0
    /\ is_tag_step_passed(cyclic_machine).val

\* C23: every next(nester) of the pipeline returns: the tag level's wait for
\* is_step_passed and each cyclic round's wait for is_tag_step_passed end
\* after finitely many steps.
C23_AdvanceTerminates == <>WaitDone

\* an advance that returned after more than six tag steps
C23_Witness ==
    /\ WaitDone
    /\ steps > 6
    /\ is_step_passed(tag_machine).val
    /\ tape_tuple(machine).val.left_number > 0

-----------------------------------------------------------------------------
(* Two cyclic tag systems made with the same CyclicTransition object and     *)
(* tapes of their own.  __init__ keeps the object given (self.transition =   *)
(* transition), so both systems' transition is the one object held in        *)
(* cyclic_transition: what next() of either does to it, both see.            *)

SharedInit ==
    /\ \E l \in CyclicLists : \E ta, tb \in SeqsUpTo({NO, YES}, MaxTape) :
           /\ cyclic_transition = [bound |-> TRUE, val |-> CyclicTransition(l)]
           /\ cyclic_machine =
                  [a |-> CyclicTagSystem(CyclicTransition(l), CyclicTape(ta)),
                   b |-> CyclicTagSystem(CyclicTransition(l), CyclicTape(tb))]
    /\ machine = None
    /\ tag_machine = None
    /\ nester = None
    /\ steps = [a |-> 0, b |-> 0]
    /\ last = [op |-> "init"]

\* next(a)
SharedStepA ==
    /\ steps.a + steps.b < MaxSteps
    /\ \E r \in {CyclicNext(cyclic_machine.a)} :
           /\ cyclic_machine' = [a |-> r.val,
                                 b |-> [cyclic_machine.b EXCEPT
                                            !.transition = r.val.transition]]
           /\ cyclic_transition' = [bound |-> TRUE, val |-> r.val.transition]
           /\ last' = [op |-> "next_a", err |-> r.err, pre |-> cyclic_machine]
           /\ steps' = IF r.err = "ok" THEN [steps EXCEPT !.a = @ + 1] ELSE steps
    /\ UNCHANGED <<machine, tag_machine, nester>>

\* next(b)
SharedStepB ==
    /\ steps.a + steps.b < MaxSteps
    /\ \E r \in {CyclicNext(cyclic_machine.b)} :
           /\ cyclic_machine' = [a |-> [cyclic_machine.a EXCEPT
                                            !.transition = r.val.transition],
                                 b |-> r.val]
           /\ cyclic_transition' = [bound |-> TRUE, val |-> r.val.transition]
           /\ last' = [op |-> "next_b", err |-> r.err, pre |-> cyclic_machine]
           /\ steps' = IF r.err = "ok" THEN [steps EXCEPT !.b = @ + 1] ELSE steps
    /\ UNCHANGED <<machine, tag_machine, nester>>

SharedNext == SharedStepA \/ SharedStepB

SpecShared == SharedInit /\ [][SharedNext]_vars

\* the production sys selects on its next step
Selected(sys) == PyAt(sys.transition.transitions, sys.transition.point)

\* C24 (as claimed): a step of one of two systems made on the same transition
\* object changes neither the other's tape nor the production the other
\* selects next, and each system's n-th step uses entry n mod length.
C24_NoInterference ==
    /\ last.op = "next_a" =>
           /\ cyclic_machine.b.tape = last.pre.b.tape
           /\ Selected(cyclic_machine.b) = Selected(last.pre.b)
    /\ last.op = "next_b" =>
           /\ cyclic_machine.a.tape = last.pre.a.tape
           /\ Selected(cyclic_machine.a) = Selected(last.pre.a)
    /\ cyclic_machine.a.transition.point =
           steps.a % Len(cyclic_machine.a.transition.transitions)
    /\ cyclic_machine.b.transition.point =
           steps.b % Len(cyclic_machine.b.transition.transitions)

=============================================================================
